---------------------------- MODULE Spec2Model ----------------------------
(***************************************************************************)
(* A model of the hj_reachability solver driver (solver.py) and its        *)
(* time integrators (time_integration.py).                                 *)
(*                                                                         *)
(* Numbers.  The program computes in binary floating point (jnp float32,   *)
(* round to nearest, ties to even).  The model keeps that arithmetic but   *)
(* shrinks the format: a number is an integer count of ticks, one tick     *)
(* being 1/Scale, and only integers whose binary expansion has at most     *)
(* Precision significant bits are representable.  Every arithmetic         *)
(* operation computes the exact result and rounds it to the nearest        *)
(* representable number, ties to the even mantissa, as IEEE 754 does.      *)
(* Infinity is the sentinel Inf (1/0 in the step-size bound).              *)
(***************************************************************************)
EXTENDS Integers, Sequences, FiniteSets, TLC

\* Mantissa bits of the modelled floating-point format (float32 has 24).
Precision == 4
\* Number of grid nodes of the one-dimensional grid.
NumNodes == 3
\* Largest binary exponent of a finite number, in ticks.
MaxExp == 12
\* Sub-steps the pure `step` operator unrolls before it gives up.
MaxSubSteps == 20

Pow2(n) == 2 ^ n

\* Ticks per unit: 1.0 is Scale ticks.
Scale == Pow2(Precision + 4)
\* Largest finite number and the infinity sentinel.
MaxFinite == (Pow2(Precision) - 1) * Pow2(MaxExp)
Inf == Pow2(Precision) * Pow2(MaxExp)

Abs(x) == IF x < 0 THEN -x ELSE x
Sgn(x) == IF x > 0 THEN 1 ELSE IF x < 0 THEN -1 ELSE 0

\* The exponent of the quantum for a magnitude whose floor is fl: the least
\* k with fl < 2^(Precision + k).
RECURSIVE QuantumFrom(_, _)
QuantumFrom(fl, k) == IF fl < Pow2(Precision + k) THEN k ELSE QuantumFrom(fl, k + 1)
Quantum(fl) == QuantumFrom(fl, 0)

\* Let(e, LAMBDA x : body) is body with x bound to the value of e: the
\* sequential assignments of the program.
Let(x, F(_)) == F(x)

Saturate(x) == IF x > MaxFinite THEN Inf ELSE x
\* m + r / qd to the nearest integer, ties to even.
RoundHalfEven(m, r, qd) ==
    IF (2 * r > qd) \/ (2 * r = qd /\ m % 2 = 1) THEN m + 1 ELSE m
\* N / D rounded to a multiple of the quantum qd / D.
RoundAt(N, D, qd) == Saturate(RoundHalfEven(N \div qd, N % qd, qd) * (qd \div D))
\* N / D (N >= 0, D > 0) rounded to the nearest representable magnitude,
\* ties to even; saturates to Inf above MaxFinite.
RoundNat(N, D) ==
    IF N \div D >= Inf THEN Inf ELSE RoundAt(N, D, D * Pow2(Quantum(N \div D)))
RoundSigned(n, d) == IF n >= 0 THEN RoundNat(n, d) ELSE -RoundNat(-n, d)
\* N / D (D # 0) rounded; rounding is symmetric in the sign.
Round(N, D) == IF D < 0 THEN RoundSigned(-N, -D) ELSE RoundSigned(N, D)

IsInf(x) == Abs(x) >= Inf

\* Floating-point +, -, *, / on tick counts.
FAdd(a, b) == IF IsInf(a) THEN a ELSE IF IsInf(b) THEN b ELSE Round(a + b, 1)
FSub(a, b) == FAdd(a, -b)
FMul(a, b) == IF IsInf(a) \/ IsInf(b) THEN Sgn(a) * Sgn(b) * Inf
              ELSE Round(a * b, Scale)
FDiv(a, b) == IF b = 0 THEN Sgn(a) * Inf
              ELSE IF IsInf(b) THEN 0
              ELSE IF IsInf(a) THEN Sgn(a) * Sgn(b) * Inf
              ELSE Round(a * Scale, b)
FMin(a, b) == IF a <= b THEN a ELSE b
FMax(a, b) == IF a >= b THEN a ELSE b

\* A Python float literal p/q converted to the array's float type.
Lit(p, q) == Round(p * Scale, q)
One == Lit(1, 1)
Two == Lit(2, 1)

\* A field as an array of computed numbers (a tuple), not a pending expression.
Array(f) == f \o <<>>

Some(x) == <<x>>
None == <<>>

\* ------------------------------------------------------------ the inputs

\* The nodes of the one-dimensional grid.
Nodes == 1..NumNodes
\* grid.spacings: the axis spacing, 1.0.
Spacings == {Lit(1, 1)}
\* The wave speed a of the dynamics H(x, t, v, p) = a * p: 0 and 1.75.
Speeds == {0, Lit(7, 4)}
\* The `times` sequences solve is called with: a single time, three times
\* forward and backward, a target across zero, and times so large that the
\* spacing of the floating-point numbers exceeds the stable step.
TimesArgs == {<<Lit(7, 2)>>,
              <<Lit(1, 1), Lit(3, 2), Lit(2, 1)>>,
              <<Lit(2, 1), Lit(3, 2), Lit(1, 1)>>,
              <<Lit(1, 2), Lit(-11, 16)>>,
              <<Lit(16, 1), Lit(18, 1)>>}
\* The obstacle field bound into static_obstacle: 1.0 at every node.
Obstacle == Array([i \in Nodes |-> Lit(1, 1)])
\* Step magnitudes tried on the Euler sub-step with an explicit time_step.
StepSizes == {Lit(1, 4), Lit(1, 1)}

\* initial_values: the zero field (j = 0) and the fields that are 1.75 at one
\* node j and zero elsewhere.
ValueFields == {Array([i \in Nodes |-> IF i = j THEN Lit(7, 4) ELSE 0]) : j \in 0..NumNodes}
\* active_set as passed: None; a mask of the value field's shape with one node
\* inactive, with one node active or with none active (j = 0); a mask of
\* another shape.
ActiveSetArgs ==
    {None}
        \cup {Array([i \in Nodes |-> i # j]) : j \in Nodes}
        \cup {Array([i \in Nodes |-> i = j]) : j \in 0..NumNodes}
        \cup {Array([i \in 1..(NumNodes + 1) |-> TRUE])}

\* ------------------------------------------------------------- solver.py

\* Hamiltonian postprocessors and value postprocessors, applied per node.
identity(x) == x
\* A faulty variant of backwards_reachable_tube: the wrong clamp.
mutant_backwards_reachable_tube(x) == FMax(x, 0)
backwards_reachable_tube(x) == FMin(x, 0)
static_obstacle(obstacle, v) == FMax(v, obstacle)

hamiltonian_postprocessor(name, x) ==
    IF name = "backwards_reachable_tube" THEN backwards_reachable_tube(x) ELSE identity(x)
value_postprocessor(name, t, values) ==
    IF name = "static_obstacle"
    THEN Array([i \in Nodes |-> static_obstacle(Obstacle[i], values[i])])
    ELSE identity(values)

SolverAccuracyEnum == {"low", "medium", "high", "very_high", "customodp"}
\* What with_accuracy is called with: the enum's values and other strings.
AccuracyArgs == SolverAccuracyEnum \cup {"LOW", "ultra"}
HamiltonianPostprocessors == {"identity", "backwards_reachable_tube"}
ValuePostprocessors == {"identity", "static_obstacle"}

\* The SolverSettings dataclass; CFL_number keeps its default, 0.75.
SolverSettings(upwind_scheme, time_integrator, hp, vp) ==
    [raised |-> "",
     upwind_scheme |-> upwind_scheme,
     artificial_dissipation_scheme |-> "global_lax_friedrichs",
     hamiltonian_postprocessor |-> hp,
     time_integrator |-> time_integrator,
     value_postprocessor |-> vp,
     CFL_number |-> Lit(3, 4)]
ValueError == [raised |-> "ValueError"]
NoSettings == [raised |-> "unset"]

\* A faulty variant of with_accuracy: an unknown preset falls through to
\* the defaults.
mutant_with_accuracy(accuracy, hp, vp) ==
    IF accuracy = "low" THEN SolverSettings("first_order", "RK1", hp, vp)
    ELSE IF accuracy = "medium" THEN SolverSettings("ENO2", "RK2", hp, vp)
    ELSE IF accuracy = "high" THEN SolverSettings("WENO3", "RK3", hp, vp)
    ELSE IF accuracy = "customodp" THEN SolverSettings("ENO2", "RK3", hp, vp)
    ELSE SolverSettings("WENO5", "RK3", hp, vp)
with_accuracy(accuracy, hp, vp) ==
    IF accuracy = "low" THEN SolverSettings("first_order", "RK1", hp, vp)
    ELSE IF accuracy = "medium" THEN SolverSettings("ENO2", "RK2", hp, vp)
    ELSE IF accuracy = "high" THEN SolverSettings("WENO3", "RK3", hp, vp)
    ELSE IF accuracy = "very_high" THEN SolverSettings("WENO5", "RK3", hp, vp)
    ELSE IF accuracy = "customodp" THEN SolverSettings("ENO2", "RK3", hp, vp)
    ELSE ValueError

\* --------------------------------------- the grid and dynamics capabilities

Prev(i) == IF i = 1 THEN NumNodes ELSE i - 1
Succ(i) == IF i = NumNodes THEN 1 ELSE i + 1
\* grid.upwind_grad_values: one-sided differences on the periodic axis, for
\* every upwind scheme (the higher-order stencils are not modelled).
upwind_grad_values(grid, values) ==
    [left  |-> Array([i \in Nodes |-> FDiv(FSub(values[i], values[Prev(i)]), grid.spacing)]),
     right |-> Array([i \in Nodes |-> FDiv(FSub(values[Succ(i)], values[i]), grid.spacing)])]
\* dynamics.hamiltonian and dynamics.partial_max_magnitudes for H = a * p.
hamiltonian(dynamics, grad_value) == FMul(dynamics.a, grad_value)
partial_max_magnitudes(dynamics) == Abs(dynamics.a)
\* artificial_dissipation.global_lax_friedrichs: the grid-wide maximum of the
\* wave-speed bound, at every node.
global_lax_friedrichs(dynamics) == Array([i \in Nodes |-> partial_max_magnitudes(dynamics)])

\* ---------------------------------------------------- time_integration.py

\* lambda *args: time_direction * dynamics.hamiltonian(*args)
\* A faulty variant of the lambda: the time direction is dropped.
mutant_directed_hamiltonian(time_direction, dynamics, grad_value) ==
    hamiltonian(dynamics, grad_value)
directed_hamiltonian(time_direction, dynamics, grad_value) ==
    time_direction * hamiltonian(dynamics, grad_value)

lax_friedrichs_numerical_hamiltonian(time_direction, dynamics, left_grad_value, right_grad_value, dissipation_coefficients) ==
    \* hamiltonian_value - dissipation_value
    FSub(directed_hamiltonian(time_direction, dynamics,
                              FDiv(FAdd(left_grad_value, right_grad_value), Two)),
         FDiv(FMul(dissipation_coefficients, FSub(right_grad_value, left_grad_value)), Two))

RECURSIVE MaxOver(_, _)
MaxOver(f, n) == IF n = 1 THEN f[1] ELSE FMax(f[n], MaxOver(f, n - 1))

\* 1 / jnp.max(jnp.sum(dissipation_coefficients / jnp.array(grid.spacings), -1))
max_dissipation_rate(grid, dissipation_coefficients) ==
    MaxOver(Array([i \in Nodes |-> FDiv(dissipation_coefficients[i], grid.spacing)]),
            NumNodes)
time_step_bound(grid, dissipation_coefficients) ==
    FDiv(One, max_dissipation_rate(grid, dissipation_coefficients))

\* time_direction * jnp.minimum(CFL_number * time_step_bound, jnp.abs(max_time_step))
\* A faulty variant of the step derivation: the CFL number is dropped.
mutant_cfl_time_step(solver_settings, grid, dissipation_coefficients, time_direction, max_time_step) ==
    time_direction * FMin(time_step_bound(grid, dissipation_coefficients),
                          Abs(max_time_step))
cfl_time_step(solver_settings, grid, dissipation_coefficients, time_direction, max_time_step) ==
    time_direction * FMin(FMul(solver_settings.CFL_number,
                               time_step_bound(grid, dissipation_coefficients)),
                          Abs(max_time_step))

euler_step(solver_settings, dynamics, grid, time, values, active_set, time_step, max_time_step) ==
    Let(IF time_step = None THEN Sgn(max_time_step[1]) ELSE Sgn(time_step[1]),
        LAMBDA time_direction :
    Let(upwind_grad_values(grid, values), LAMBDA grads :
    Let(global_lax_friedrichs(dynamics), LAMBDA dissipation_coefficients :
    Let(Array([i \in Nodes |->
            -hamiltonian_postprocessor(solver_settings.hamiltonian_postprocessor,
                time_direction *
                    (IF active_set[i]
                     THEN lax_friedrichs_numerical_hamiltonian(
                              time_direction, dynamics, grads.left[i], grads.right[i],
                              dissipation_coefficients[i])
                     ELSE 0))]),
        LAMBDA dvalues_dt :
    Let(IF time_step = None
        THEN cfl_time_step(solver_settings, grid, dissipation_coefficients,
                           time_direction, max_time_step[1])
        ELSE time_step[1],
        LAMBDA dt :
    <<FAdd(time, dt), Array([i \in Nodes |-> FAdd(values[i], FMul(dt, dvalues_dt[i]))])>>
    )))))

first_order_total_variation_diminishing_runge_kutta(solver_settings, dynamics, grid, time, values, target_time, active_set) ==
    Let(euler_step(solver_settings, dynamics, grid, time, values, active_set, None,
                   Some(FSub(target_time, time))),
        LAMBDA e1 :
    <<e1[1], value_postprocessor(solver_settings.value_postprocessor, e1[1], e1[2])>>)

second_order_total_variation_diminishing_runge_kutta(solver_settings, dynamics, grid, time, values, target_time, active_set) ==
    Let(euler_step(solver_settings, dynamics, grid, time, values, active_set, None,
                   Some(FSub(target_time, time))),
        LAMBDA e1 :
    Let(FSub(e1[1], time), LAMBDA time_step :
    Let(euler_step(solver_settings, dynamics, grid, e1[1], e1[2], active_set,
                   Some(time_step), None),
        LAMBDA e2 :
    <<e1[1], value_postprocessor(solver_settings.value_postprocessor, e1[1],
          Array([i \in Nodes |-> FDiv(FAdd(values[i], e2[2][i]), Two)]))>>
    )))

third_order_total_variation_diminishing_runge_kutta(solver_settings, dynamics, grid, time, values, target_time, active_set) ==
    Let(euler_step(solver_settings, dynamics, grid, time, values, active_set, None,
                   Some(FSub(target_time, time))),
        LAMBDA e1 :
    Let(FSub(e1[1], time), LAMBDA time_step :
    Let(euler_step(solver_settings, dynamics, grid, e1[1], e1[2], active_set,
                   Some(time_step), None),
        LAMBDA e2 :
    Let(<<FAdd(time, FDiv(time_step, Two)),
          Array([i \in Nodes |-> FAdd(FMul(Lit(3, 4), values[i]),
                                      FMul(Lit(1, 4), e2[2][i]))])>>,
        LAMBDA tv_0_5 :
    Let(euler_step(solver_settings, dynamics, grid, tv_0_5[1], tv_0_5[2], active_set,
                   Some(time_step), None),
        LAMBDA e3 :
    <<e1[1], value_postprocessor(solver_settings.value_postprocessor, e1[1],
          Array([i \in Nodes |-> FAdd(FMul(Lit(1, 3), values[i]),
                                      FMul(Lit(2, 3), e3[2][i]))]))>>
    )))))

\* solver_settings.time_integrator(solver_settings, dynamics, grid, ...)
time_integrator(solver_settings, dynamics, grid, time, values, target_time, active_set) ==
    IF solver_settings.time_integrator = "RK1"
    THEN first_order_total_variation_diminishing_runge_kutta(
             solver_settings, dynamics, grid, time, values, target_time, active_set)
    ELSE IF solver_settings.time_integrator = "RK2"
    THEN second_order_total_variation_diminishing_runge_kutta(
             solver_settings, dynamics, grid, time, values, target_time, active_set)
    ELSE third_order_total_variation_diminishing_runge_kutta(
             solver_settings, dynamics, grid, time, values, target_time, active_set)

\* ------------------------------------------------- solver.py: step, solve

\* The while_loop condition of step.
loop_cond(time, target_time) == Abs(FSub(target_time, time)) > 0

\* What step returns when its loop has not ended after MaxSubSteps sub-steps.
Diverged == <<>>
\* step as a function: the while_loop, unrolled.
RECURSIVE step_loop(_, _, _, _, _, _, _, _)
step_loop(solver_settings, dynamics, grid, time, values, target_time, active_set, fuel) ==
    IF loop_cond(time, target_time)
    THEN IF fuel = 0 THEN Diverged
         ELSE Let(time_integrator(solver_settings, dynamics, grid, time, values,
                                  target_time, active_set),
                  LAMBDA tv : step_loop(solver_settings, dynamics, grid, tv[1], tv[2],
                                        target_time, active_set, fuel - 1))
    ELSE values
step(solver_settings, dynamics, grid, time, values, target_time, active_set) ==
    step_loop(solver_settings, dynamics, grid, time, values, target_time, active_set,
              MaxSubSteps)

\* active_set = jnp.ones_like(values) when it is None.
default_active_set(active_set) ==
    IF active_set = None THEN Array([i \in Nodes |-> TRUE]) ELSE active_set

\* utils.multivmap maps the per-node function over the node axis of values and
\* active_set together: their shapes must agree.
multivmap_shapes_agree(values, active_set) == Len(active_set) = Len(values)
\* What euler_step has called on the grid and the dynamics before the
\* per-node map reads active_set.
stages_before_active_set == <<"upwind_grad_values", "artificial_dissipation_scheme">>

VARIABLES
    pc,              \* "config", "ready", "stepping", "done", "config_error", "shape_error"
    accuracy,        \* the argument of with_accuracy
    solver_settings, \* the SolverSettings built, or NoSettings
    dynamics,        \* [a]: the dynamics
    grid,            \* [spacing]: the grid
    times,           \* solve's times
    initial_values,  \* solve's initial_values
    active_set,      \* solve's active_set, as passed and then defaulted
    k,               \* index into times of the target the scan is stepping to
    time,            \* the loop variable time of step
    values,          \* the loop variable values of step
    out,             \* the value fields solve has output
    node_work,       \* node-level stages called before an error was raised
    last             \* the sub-step last taken: its inputs and its outputs

vars == <<pc, accuracy, solver_settings, dynamics, grid, times, initial_values,
          active_set, k, time, values, out, node_work, last>>

NoLast == [valid |-> FALSE]

Init ==
    /\ pc = "config"
    /\ accuracy = ""
    /\ solver_settings = NoSettings
    /\ dynamics = [a |-> 0]
    /\ grid = [spacing |-> Lit(1, 1)]
    /\ times = <<0>>
    /\ initial_values = Array([i \in Nodes |-> 0])
    /\ active_set = None
    /\ k = 1
    /\ time = 0
    /\ values = Array([i \in Nodes |-> 0])
    /\ out = <<>>
    /\ node_work = <<>>
    /\ last = NoLast

\* SolverSettings.with_accuracy(accuracy, hamiltonian_postprocessor=hp,
\* value_postprocessor=vp)
WithAccuracy ==
    /\ pc = "config"
    /\ \E acc \in AccuracyArgs, hp \in HamiltonianPostprocessors, vp \in ValuePostprocessors :
          \E r \in {with_accuracy(acc, hp, vp)} :
              /\ accuracy' = acc
              /\ IF r = ValueError
                 THEN pc' = "config_error" /\ UNCHANGED solver_settings
                 ELSE pc' = "ready" /\ solver_settings' = r
    /\ UNCHANGED <<dynamics, grid, times, initial_values, active_set, k, time, values,
                   out, node_work, last>>

\* lambda t, v: ((t, v), v)
\* A faulty variant of the carry: the time carried on is not the target.
mutant_make_carry_and_output_slice(t, v) == <<<<times[1], v>>, v>>
make_carry_and_output_slice(t, v) == <<<<t, v>>, v>>

\* solve(solver_settings, dynamics, grid, times, initial_values, active_set):
\* the active set is defaulted, the scan body is traced (which is where a mask
\* of the wrong shape raises), and the initial values are the first output.
Solve ==
    /\ pc = "ready"
    /\ \E dyn \in [a : Speeds], g \in [spacing : Spacings], ts \in TimesArgs,
          v0 \in ValueFields, mask \in ActiveSetArgs :
          /\ dynamics' = dyn
          /\ grid' = g
          /\ times' = ts
          /\ initial_values' = v0
          /\ active_set' = default_active_set(mask)
          /\ IF multivmap_shapes_agree(v0, active_set')
             THEN /\ out' = <<v0>>
                  /\ time' = ts[1]
                  /\ values' = v0
                  /\ k' = 2
                  /\ pc' = IF Len(ts) > 1 THEN "stepping" ELSE "done"
                  /\ UNCHANGED node_work
             ELSE /\ pc' = "shape_error"
                  /\ node_work' = stages_before_active_set
                  /\ UNCHANGED <<out, time, values, k>>
    /\ UNCHANGED <<accuracy, solver_settings, last>>

\* One iteration of step's while_loop: sub_step.
SubStep ==
    /\ pc = "stepping"
    /\ loop_cond(time, times[k])
    /\ \E tv \in {time_integrator(solver_settings, dynamics, grid, time, values, times[k],
                                   active_set)} :
           /\ time' = tv[1]
           /\ values' = tv[2]
           /\ last' = [valid |-> TRUE, time |-> time, values |-> values,
                       target_time |-> times[k], time_1 |-> tv[1], values_1 |-> tv[2]]
    /\ UNCHANGED <<pc, accuracy, solver_settings, dynamics, grid, times, initial_values,
                   active_set, k, out, node_work>>

\* step's loop ends: the scan takes its carry and output slice and goes on
\* to the next target time.
StepReturn ==
    /\ pc = "stepping"
    /\ ~loop_cond(time, times[k])
    /\ \E co \in {make_carry_and_output_slice(times[k], values)} :
           /\ time' = co[1][1]
           /\ values' = co[1][2]
           /\ out' = Append(out, co[2])
    /\ k' = k + 1
    /\ pc' = IF k = Len(times) THEN "done" ELSE "stepping"
    /\ UNCHANGED <<accuracy, solver_settings, dynamics, grid, times, initial_values,
                   active_set, node_work, last>>

Next == WithAccuracy \/ Solve \/ SubStep \/ StepReturn

Spec == Init /\ [][Next]_vars

\* ------------------------------------------------------------- the claims

Forward(l) == l.target_time > l.time
Backward(l) == l.target_time < l.time

\* C1: with a positive finite stability bound (a # 0), step's loop ends after
\* finitely many sub-steps: no sub-step taken short of the target returns the
\* very (time, values) it was given, which the loop would then repeat forever.
C1_StepTerminates ==
    (last.valid /\ dynamics.a # 0) =>
        ~(last.time_1 = last.time /\ last.values_1 = last.values)

\* C2: solve returns exactly one value field per element of times; the first
\* is initial_values and each later one is step applied to the previous
\* output, from the previous time to the next.
C2_SolveIsSequentialComposition ==
    pc = "done" =>
        /\ Len(out) = Len(times)
        /\ out[1] = initial_values
        /\ \A j \in 2..Len(times) :
               out[j] = step(solver_settings, dynamics, grid, times[j - 1], out[j - 1],
                             times[j], active_set)
\* A solve over three times returned, and both of its steps changed the field.
C2_Witness ==
    /\ pc = "done"
    /\ Len(times) = 3
    /\ out[2] # out[1]
    /\ out[3] # out[2]

\* C3: after a sub-step, by any integrator and with any postprocessors, every
\* node that is inactive in the mask has the value it had before the sub-step.
C3_InactiveNodesUnchanged ==
    last.valid => \A i \in Nodes : ~active_set[i] => last.values_1[i] = last.values[i]

\* C4: with the zero Hamiltonian (a = 0) and the identity value postprocessor,
\* a sub-step by any integrator leaves the value field as it was.
C4_ZeroHamiltonianFixedPoint ==
    (last.valid /\ dynamics.a = 0 /\ solver_settings.value_postprocessor = "identity")
        => last.values_1 = last.values

\* The step euler_step derives for the sub-step recorded in last, and the
\* maximum over the nodes of dissipation_coefficient / spacing it derives it from.
DerivedTimeStep(l) ==
    cfl_time_step(solver_settings, grid, global_lax_friedrichs(dynamics),
                  Sgn(FSub(l.target_time, l.time)), FSub(l.target_time, l.time))
DerivedRate == max_dissipation_rate(grid, global_lax_friedrichs(dynamics))

\* C5 (as stated): the derived step dt satisfies |dt| * s / h <= CFL_number,
\* s the wave speed bound and h the spacing, in exact arithmetic.
C5_CflBoundExact ==
    last.valid =>
        Abs(DerivedTimeStep(last)) * partial_max_magnitudes(dynamics)
            <= solver_settings.CFL_number * grid.spacing
\* C5 (amended): the derived step dt satisfies |dt| <= |target_time - time| as
\* computed, and |dt| * M <= CFL_number * (1 + 2^-Precision)^2, where M is the
\* computed maximum of dissipation_coefficient / spacing: the bound holds up
\* to the two roundings of 1 / M and of CFL_number * (1 / M).
C5_CflBoundUpToRounding ==
    last.valid =>
        /\ Abs(DerivedTimeStep(last)) <= Abs(FSub(last.target_time, last.time))
        /\ Abs(DerivedTimeStep(last)) * DerivedRate * Pow2(Precision) * Pow2(Precision)
               <= solver_settings.CFL_number * Scale
                      * (Pow2(Precision) + 1) * (Pow2(Precision) + 1)
\* A sub-step whose step was the CFL-derived one, not the remaining distance,
\* and exceeded the exact bound.
C5_Witness ==
    /\ last.valid
    /\ Abs(DerivedTimeStep(last)) < Abs(FSub(last.target_time, last.time))
    /\ Abs(DerivedTimeStep(last)) * DerivedRate > solver_settings.CFL_number * Scale

\* C6: a call with a mask of another shape than the value field ends in an
\* error with no node-level stage (gradients, dissipation) having been called.
C6_ShapeMismatchRejectedEagerly == pc = "shape_error" => node_work = <<>>

\* The (upwind scheme, time integrator) of each accuracy preset.
Presets == [low       |-> <<"first_order", "RK1">>,
            medium    |-> <<"ENO2", "RK2">>,
            high      |-> <<"WENO3", "RK3">>,
            very_high |-> <<"WENO5", "RK3">>,
            customodp |-> <<"ENO2", "RK3">>]
\* C7: once with_accuracy has been called, a preset name has produced the
\* settings of its row of the table, with the postprocessors passed, and any
\* other name has raised ValueError and produced no settings.
C7_WithAccuracyPresets ==
    pc # "config" =>
        IF accuracy \in SolverAccuracyEnum
        THEN /\ pc # "config_error"
             /\ solver_settings.raised = ""
             /\ solver_settings.upwind_scheme = Presets[accuracy][1]
             /\ solver_settings.time_integrator = Presets[accuracy][2]
        ELSE /\ pc = "config_error"
             /\ solver_settings = NoSettings
\* with_accuracy was called with a name that is no preset and raised.
C7_Witness == pc = "config_error" /\ accuracy = "ultra"

\* C8: a sub-step taken from time towards target_time moves the time in the
\* direction of the target or not at all, and by no more than the remaining
\* distance |target_time - time|.
C8_NeverOvershoots ==
    last.valid =>
        /\ \/ Sgn(last.time_1 - last.time) = Sgn(last.target_time - last.time)
           \/ last.time_1 = last.time
        /\ Abs(last.time_1 - last.time) <= Abs(last.target_time - last.time)

\* The dynamics with the Hamiltonian negated: -a * p.
Negated(dyn) == [a |-> -dyn.a]
EulerBackward(ss, d) ==
    euler_step(ss, dynamics, grid, time, values, active_set, Some(-d), None)[2]
EulerForwardNegated(ss, d) ==
    euler_step(ss, Negated(dynamics), grid, time, values, active_set, Some(d), None)[2]

\* C9 (as stated): with either Hamiltonian postprocessor, an Euler sub-step
\* with time step -d under H gives the same value field as an Euler sub-step
\* with time step +d under -H.
C9_BackwardIsForwardNegated ==
    pc = "stepping" =>
        \A d \in StepSizes :
            EulerBackward(solver_settings, d) = EulerForwardNegated(solver_settings, d)
\* C9 (amended): with the identity Hamiltonian postprocessor, an Euler
\* sub-step with time step -d under H gives the same value field as an Euler
\* sub-step with time step +d under -H.
C9_BackwardIsForwardNegatedIdentity ==
    (pc = "stepping" /\ solver_settings.hamiltonian_postprocessor = "identity") =>
        \A d \in StepSizes :
            EulerBackward(solver_settings, d) = EulerForwardNegated(solver_settings, d)
\* A field that a backward Euler sub-step under a non-zero Hamiltonian and the
\* identity postprocessor changes.
C9_Witness ==
    /\ pc = "stepping"
    /\ solver_settings.hamiltonian_postprocessor = "identity"
    /\ dynamics.a # 0
    /\ \E d \in StepSizes : EulerBackward(solver_settings, d) # values

\* What the integrator's final combination makes of a value v when every
\* stage left it v: v itself, but for the third-order integrator the rounded
\* (1 / 3) * v + (2 / 3) * v.
Recombined(v) ==
    IF solver_settings.time_integrator = "RK3"
    THEN FAdd(FMul(Lit(1, 3), v), FMul(Lit(2, 3), v))
    ELSE v

\* C10 (as stated): with backwards_reachable_tube and the identity value
\* postprocessor, after a sub-step in either time direction every node's value
\* is at most its value before.
C10_ValueOnlyDecreases ==
    (/\ last.valid
     /\ solver_settings.hamiltonian_postprocessor = "backwards_reachable_tube"
     /\ solver_settings.value_postprocessor = "identity")
        => \A i \in Nodes : last.values_1[i] <= last.values[i]
\* C10 (amended): with backwards_reachable_tube and the identity value
\* postprocessor, a sub-step backward in time leaves every node's value at
\* most the recombination of its value before, and a sub-step forward in time
\* leaves it at least that; the recombination is the value itself for the
\* first- and second-order integrators.
C10_ValueMonotoneInTimeDirection ==
    (/\ last.valid
     /\ solver_settings.hamiltonian_postprocessor = "backwards_reachable_tube"
     /\ solver_settings.value_postprocessor = "identity")
        => \A i \in Nodes :
               /\ Backward(last) => last.values_1[i] <= Recombined(last.values[i])
               /\ Forward(last) => last.values_1[i] >= Recombined(last.values[i])
\* A backward sub-step with backwards_reachable_tube that lowered a value.
C10_Witness ==
    /\ last.valid
    /\ solver_settings.hamiltonian_postprocessor = "backwards_reachable_tube"
    /\ solver_settings.value_postprocessor = "identity"
    /\ Backward(last)
    /\ \E i \in Nodes : last.values_1[i] < last.values[i]
=============================================================================
